---- MODULE Spec2Model ----
(***************************************************************************)
(* Model of ClientService (src/src/client.service.ts): node selection,     *)
(* the web3 handshake (connectToNode), failover (networkResilience) and    *)
(* the recurring health check armed with setInterval.                      *)
(*                                                                         *)
(* Every await of the source is a point where other callbacks may run, so  *)
(* each action runs one handler from the request response it waits for up  *)
(* to the next await.                                                      *)
(***************************************************************************)
EXTENDS Integers, Sequences, FiniteSets, TLC

\* ---------------------------------------------------------------- bounds
\* Number of connectToNode call chains (startup plus monitor re-handshakes).
MaxHandshakes == 3
\* Number of generateBaseUrl calls a behaviour may make.
MaxSelections == 3
\* Number of interval ticks a behaviour may fire.
MaxTicks == 2
\* Longest node list the directory returns.
MaxNodes == 2
\* Math.random() is drawn from {0, 1/RandomSteps, ..., (RandomSteps-1)/RandomSteps}.
RandomSteps == 4

\* ---------------------------------------------------------------- values
Undefined == "undefined"

\* membership.operator records of the directory entries.
NodeA == [url |-> "http://node-a", accountId |-> "0.0.100"]
NodeB == [url |-> "http://node-b", accountId |-> "0.0.200"]
NodeC == [url |-> "node-c.local", accountId |-> "0.0.300"]
Operators == {NodeA, NodeB, NodeC}
NoOperator == [url |-> Undefined, accountId |-> Undefined]

\* Values clientOptions.baseUrl may be configured with.
ConfiguredUrls == {Undefined, "http://pinned", "pinned.local"}

\* String.prototype.startsWith('http') over the URLs of the model.
StartsWithHttp(url) == url \in {"http://node-a", "http://node-b", "http://pinned"}

\* JavaScript truthiness of clientOptions.baseUrl.
Truthy(url) == url \notin {Undefined, ""}

\* The directory's full list, in the three orders it is served in.
Rings == {<<NodeA, NodeB, NodeC>>, <<NodeB, NodeC, NodeA>>,
          <<NodeC, NodeA, NodeB>>}

\* The smaller of two numbers.
Shortest(n, m) == IF n < m THEN n ELSE m

\* Node lists smartConfigService.getNodes() may resolve to: the first k
\* entries of a ring, for every k up to MaxNodes.
Snapshots ==
    {SubSeq(ring, 1, k) : ring \in Rings, k \in 0 .. Shortest(MaxNodes, 3)}

\* Errors a handshake attempt may raise.  The transport errors carry their
\* name as error.code; a TypeError and the key parser's error carry none.
RecoverableCodes == {"ECONNREFUSED", "ECONNABORTED", "ECONNRESET"}
TransportErrors == RecoverableCodes \cup {"ETIMEDOUT"}
Errors == TransportErrors \cup {"TypeError", "BadKey"}
NoError == "none"

\* error.code
Code(error) == IF error \in TransportErrors THEN error ELSE Undefined

\* Math.random() draws.
RandomDraws == 0 .. (RandomSteps - 1)


\* Login response bodies: the node grants every login a token of its own,
\* named here by the call chain that asked for it.
NoLogin == [token |-> 0, shape |-> Undefined]
LoginBody(n, shape) == [token |-> n, shape |-> shape]

\* ----------------------------------------------------------------- state
VARIABLES
    clientOptions,  \* injected options: baseUrl and whether the private key parses
    mock,           \* the nodes: answering freely, or scripted and counting
    baseURL,        \* httpService.axiosRef.defaults.baseURL
    login,          \* ClientService._login
    operator,       \* ClientService._operator
    nodes,          \* the list smartConfigService.getNodes() currently resolves to
    initPc,         \* position of onModuleInit
    hs,             \* the connectToNode call chains, by number
    started,        \* number of call chains started
    intervals,      \* setInterval timers that are armed (named by their chain)
    inflight,       \* per timer, callbacks waiting for GET /auth/profile
    ticks,          \* interval ticks fired
    selections,     \* generateBaseUrl invocations
    lastCred,       \* body returned by the latest successful handshake
    errorLog,       \* logger.error lines of onModuleInit
    unhandled,      \* call chains whose rejection no handler caught
    lastEvent       \* the handler step that produced this state

vars == <<clientOptions, mock, baseURL, login, operator, nodes, initPc,
          hs, started, intervals, inflight, ticks, selections,
          lastCred, errorLog, unhandled, lastEvent>>

Chains == 1 .. MaxHandshakes

\* Line 204: the challenge the node at url answers the GET of call chain c
\* with, named by who asked and who issued it.
Challenge(c, url) == [chain |-> c, node |-> url]

\* The envelope signNodeData builds; none is in flight while no login
\* request is.
NoEnvelope == [signedPayload |-> Challenge(0, Undefined)]

\* url and envelope describe the attempt in progress: the base URL its
\* outstanding request was sent to and the envelope its POST carries.
IdleChain == [pc |-> "idle", origin |-> "none", err |-> NoError,
              cred |-> NoLogin, url |-> Undefined, envelope |-> NoEnvelope]

\* The attempt of a chain is over: nothing of it stays in flight.
Settled(chain, pc) ==
    [chain EXCEPT !.pc = pc, !.url = Undefined, !.envelope = NoEnvelope]

\* What a handler step answered to: the operation, the call chain or timer,
\* the response that arrived and the error the handler raised on it.
Event(op, c, res, err) == [op |-> op, c |-> c, res |-> res, err |-> err]

\* A call chain is inside a handshake attempt or its failover.
Active(c) == hs[c].pc \in {"challenge", "login", "select"}

\* Timer callbacks waiting for their profile request, over timers 1..n.
RECURSIVE Pending(_)
Pending(n) == IF n = 0 THEN 0 ELSE inflight[n] + Pending(n - 1)

\* The nodes as the client meets them.  Unscripted, a node may answer
\* anything at any time and keeps no record.  Scripted, the nodes that are
\* up answer well, all others refuse the connection, and the handshake
\* requests sent to them are counted.
Unscripted == [scripted |-> FALSE, up |-> {}, gets |-> 0, posts |-> 0]

\* The answers a handshake request sent to url may get.
HandshakeAnswers(url) ==
    IF ~mock.scripted THEN {"ok", "malformed"} \cup TransportErrors
    ELSE IF url \in mock.up THEN {"ok"}
    ELSE {"ECONNREFUSED"}

\* The nodes after a handshake request of the method was sent to them.
Served(method) ==
    IF ~mock.scripted THEN mock
    ELSE IF method = "GET" THEN [mock EXCEPT !.gets = @ + 1]
    ELSE [mock EXCEPT !.posts = @ + 1]

\* --------------------------------------------------------- pure functions
\* signNodeData building its envelope around no payload at all.
signNodeDataOfNothing(payload) == [signedPayload |-> Challenge(0, Undefined)]

\* Lines 274-295: the login request signNodeData builds around the payload
\* it is given.
signNodeData(payload) == [signedPayload |-> payload]

\* Line 130: Math.floor(Math.random() * (network.length - 1)).
randomNode(r, len) == (r * (len - 1)) \div RandomSteps

\* generateBaseUrl reading the entry with optional chaining: an index that
\* names no entry yields an undefined operator instead of a TypeError.
generateBaseUrlLenient(network, r) ==
    LET i == randomNode(r, Len(network))
    IN  IF (i + 1) \in DOMAIN network
        THEN [ok |-> TRUE, operator |-> network[i + 1]]
        ELSE [ok |-> TRUE, operator |-> NoOperator]

\* Lines 129-133: the entry picked, or the TypeError of reading .membership
\* of undefined when the index names no entry.
generateBaseUrl(network, r) ==
    LET i == randomNode(r, Len(network))
    IN  IF (i + 1) \in DOMAIN network
        THEN [ok |-> TRUE, operator |-> network[i + 1]]
        ELSE [ok |-> FALSE, operator |-> NoOperator]

\* networkResilience with ECONNRESET missing from its list.
IsRecoverableShortList(error) ==
    Code(error) \in {"ECONNREFUSED", "ECONNABORTED"}

\* Line 180: the codes networkResilience answers with a new node.
IsRecoverable(error) == Code(error) \in RecoverableCodes

\* Lines 149 and 230: a configured baseUrl disables selection and failover.
BaseUrlIsFixed == Truthy(clientOptions.baseUrl)

\* logger.error writing the error itself where the source writes error.code.
LogLineWithoutCode(url, error) == [url |-> url, code |-> error]

\* Lines 161-163: the line logger.error writes.
LogLine(url, error) == [url |-> url, code |-> Code(error)]

\* ------------------------------------------------------------------ Init
\* The state after construction, whatever the options and the node list.
Constructed ==
    /\ baseURL = Undefined
    /\ login = NoLogin
    /\ operator = NoOperator
    /\ initPc = "start"
    /\ hs = [c \in Chains |-> IdleChain]
    /\ started = 0
    /\ intervals = {}
    /\ inflight = [c \in Chains |-> 0]
    /\ ticks = 0
    /\ selections = 0
    /\ lastCred = NoLogin
    /\ errorLog = << >>
    /\ unhandled = {}
    /\ lastEvent = Event("new", 0, "none", NoError)

Init ==
    /\ clientOptions \in [baseUrl : ConfiguredUrls, keyValid : BOOLEAN]
    /\ mock = Unscripted
    /\ nodes \in Snapshots
    /\ Constructed

\* --------------------------------------------------------------- actions
\* Line 204, reached by a call of connectToNode: the attempt issues
\* GET /auth/web3/request to the base URL of that moment and waits.
Requesting(chain, origin, url) ==
    [chain EXCEPT !.pc = "challenge", !.origin = origin, !.url = url,
                  !.envelope = NoEnvelope]

\* onModuleInit connecting to whatever base URL it resolved.
StartupConnectAnyUrl(url) ==
    /\ initPc' = "connecting"
    /\ hs' = [hs EXCEPT ![1] = Requesting(@, "startup", url)]
    /\ started' = 1
    /\ mock' = Served("GET")

\* Lines 155-159: onModuleInit connects only to a base URL that starts with
\* "http"; with any other it returns at once.
StartupConnect(url) ==
    IF StartsWithHttp(url)
    THEN /\ initPc' = "connecting"
         /\ hs' = [hs EXCEPT ![1] = Requesting(@, "startup", url)]
         /\ started' = 1
         /\ mock' = Served("GET")
    ELSE /\ initPc' = "done"
         /\ UNCHANGED <<hs, started, mock>>

\* Lines 147-153: onModuleInit up to its first await.
OnModuleInit ==
    /\ initPc = "start"
    /\ IF BaseUrlIsFixed
       THEN /\ baseURL' = clientOptions.baseUrl
            /\ StartupConnect(clientOptions.baseUrl)
            /\ UNCHANGED selections
       ELSE /\ initPc' = "selecting"
            /\ selections' = selections + 1
            /\ UNCHANGED <<baseURL, hs, started, mock>>
    /\ lastEvent' = Event("init", 0, "none", NoError)
    /\ UNCHANGED <<clientOptions, login, operator, nodes,
                   intervals, inflight, ticks, lastCred,
                   errorLog, unhandled>>

\* Lines 152-165: getNodes() has resolved inside onModuleInit's
\* generateBaseUrl; a TypeError of the selection lands in the catch block.
OnModuleInitSelected ==
    /\ initPc = "selecting"
    /\ \E r \in RandomDraws :
         LET sel == generateBaseUrl(nodes, r)
         IN  IF sel.ok
             THEN /\ operator' = sel.operator
                  /\ baseURL' = sel.operator.url
                  /\ StartupConnect(sel.operator.url)
                  /\ lastEvent' = Event("initSelected", 0, "nodes", NoError)
                  /\ UNCHANGED errorLog
             ELSE /\ errorLog' = Append(errorLog, LogLine(baseURL, "TypeError"))
                  /\ initPc' = "done"
                  /\ lastEvent' = Event("initSelectFailed", 0, "nodes", "TypeError")
                  /\ UNCHANGED <<operator, baseURL, hs, started, mock>>
    /\ UNCHANGED <<clientOptions, login, nodes, intervals,
                   inflight, ticks, selections, lastCred, unhandled>>

\* Lines 231 and 237: the promise of the call chain is rejected.  The startup
\* chain is awaited inside onModuleInit's try (lines 160-164); the chain a
\* timer callback awaits (line 224) is awaited inside a catch block with no
\* handler around it.
Reject(c, error) ==
    /\ hs' = [hs EXCEPT ![c] = [Settled(@, "failed") EXCEPT !.err = error]]
    /\ IF hs[c].origin = "startup"
       THEN /\ errorLog' = Append(errorLog, LogLine(baseURL, error))
            /\ initPc' = "done"
            /\ UNCHANGED unhandled
       ELSE /\ unhandled' = unhandled \cup {c}
            /\ UNCHANGED <<errorLog, initPc>>

\* Catch without the test of clientOptions.baseUrl at line 230.
CatchWithoutFixedTest(c, error) ==
    IF IsRecoverable(error)
    THEN /\ hs' = [hs EXCEPT ![c] = Settled(@, "select")]
         /\ selections' = selections + 1
         /\ UNCHANGED <<errorLog, unhandled, initPc>>
    ELSE /\ Reject(c, error)
         /\ UNCHANGED selections

\* Catch giving up once two selections have been made.
CatchWithAttemptCap(c, error) ==
    IF ~BaseUrlIsFixed /\ IsRecoverable(error) /\ selections < 2
    THEN /\ hs' = [hs EXCEPT ![c] = Settled(@, "select")]
         /\ selections' = selections + 1
         /\ UNCHANGED <<errorLog, unhandled, initPc>>
    ELSE /\ Reject(c, error)
         /\ UNCHANGED selections

\* Lines 229-240 with networkResilience (179-185): the catch block of an
\* attempt, up to the await of getNodes() or the rejection.
Catch(c, error) ==
    IF ~BaseUrlIsFixed /\ IsRecoverable(error)
    THEN /\ hs' = [hs EXCEPT ![c] = Settled(@, "select")]
         /\ selections' = selections + 1
         /\ UNCHANGED <<errorLog, unhandled, initPc>>
    ELSE /\ Reject(c, error)
         /\ UNCHANGED selections

\* Lines 204-216: the challenge request has settled.  A body without
\* signedData raises a TypeError at line 207, a key that does not parse
\* raises at line 276, otherwise the signed envelope is posted.
ChallengeResponse(c) ==
    /\ hs[c].pc = "challenge"
    /\ \E res \in HandshakeAnswers(hs[c].url) :
         LET error == IF res = "malformed" THEN "TypeError"
                      ELSE IF res # "ok" THEN res
                      ELSE IF clientOptions.keyValid THEN NoError
                      ELSE "BadKey"
         IN  /\ (IsRecoverable(error) /\ ~BaseUrlIsFixed)
                    => selections < MaxSelections
             /\ IF error = NoError
                THEN /\ hs' = [hs EXCEPT ![c].pc = "login",
                                         ![c].url = baseURL,
                                         ![c].envelope =
                                             signNodeData(
                                                 Challenge(c, hs[c].url))]
                     /\ mock' = Served("POST")
                     /\ UNCHANGED <<selections, errorLog, unhandled, initPc>>
                ELSE /\ Catch(c, error)
                     /\ UNCHANGED mock
             /\ lastEvent' = Event("challenge", c, res, error)
    /\ UNCHANGED <<clientOptions, baseURL, login, operator, nodes,
                   started, intervals, inflight, ticks, lastCred>>

\* onModuleInit awaiting connectToNode without assigning its result.
ResolvedDroppingBody(c, body) ==
    IF hs[c].origin = "startup"
    THEN /\ initPc' = "done"
         /\ UNCHANGED login
    ELSE UNCHANGED <<login, initPc>>

\* Lines 157 and 224: what the caller of the chain does with the body the
\* chain resolved to.
Resolved(c, body) ==
    IF hs[c].origin = "startup"
    THEN /\ login' = body
         /\ initPc' = "done"
    ELSE UNCHANGED <<login, initPc>>

\* Lines 213-228: the login request has settled.  Its body is taken as it
\* is (line 216 reads .data and nothing else), the timer is armed and the
\* chain resolves.
LoginResponse(c) ==
    /\ hs[c].pc = "login"
    /\ \E res \in HandshakeAnswers(hs[c].url) :
         /\ (IsRecoverable(res) /\ ~BaseUrlIsFixed)
                => selections < MaxSelections
         /\ IF res \in {"ok", "malformed"}
            THEN LET body == LoginBody(c,
                                       IF res = "ok" THEN "login"
                                       ELSE "malformed")
                 IN  /\ intervals' = intervals \cup {c}
                     /\ hs' = [hs EXCEPT ![c] =
                                  [Settled(@, "done") EXCEPT !.cred = body]]
                     /\ lastCred' = body
                     /\ Resolved(c, body)
                     /\ lastEvent' = Event("login", c, res, NoError)
                     /\ UNCHANGED <<selections, errorLog, unhandled>>
            ELSE /\ Catch(c, res)
                 /\ lastEvent' = Event("login", c, res, res)
                 /\ UNCHANGED <<intervals, lastCred, login>>
    /\ UNCHANGED <<clientOptions, mock, baseURL, operator, nodes,
                   started, inflight, ticks>>

\* Failover that selects a node but leaves defaults.baseURL as it was.
FailoverKeepingBaseUrl(c) ==
    /\ hs[c].pc = "select"
    /\ \E r \in RandomDraws :
         LET sel == generateBaseUrl(nodes, r)
         IN  IF sel.ok
             THEN /\ operator' = sel.operator
                  /\ hs' = [hs EXCEPT ![c] =
                               Requesting(@, @.origin, baseURL)]
                  /\ mock' = Served("GET")
                  /\ lastEvent' = Event("failover", c, "nodes", NoError)
                  /\ UNCHANGED <<baseURL, errorLog, unhandled, initPc>>
             ELSE /\ Reject(c, "TypeError")
                  /\ lastEvent' = Event("failover", c, "nodes", "TypeError")
                  /\ UNCHANGED <<operator, baseURL, mock>>
    /\ UNCHANGED <<clientOptions, login, nodes, started, intervals,
                   inflight, ticks, selections, lastCred>>

\* Lines 181 and 235: getNodes() has resolved inside networkResilience; the
\* base URL is replaced and connectToNode is called again, or the TypeError
\* of the selection rejects the chain (line 237).
Failover(c) ==
    /\ hs[c].pc = "select"
    /\ \E r \in RandomDraws :
         LET sel == generateBaseUrl(nodes, r)
         IN  IF sel.ok
             THEN /\ operator' = sel.operator
                  /\ baseURL' = sel.operator.url
                  /\ hs' = [hs EXCEPT ![c] =
                               Requesting(@, @.origin, sel.operator.url)]
                  /\ mock' = Served("GET")
                  /\ lastEvent' = Event("failover", c, "nodes", NoError)
                  /\ UNCHANGED <<errorLog, unhandled, initPc>>
             ELSE /\ Reject(c, "TypeError")
                  /\ lastEvent' = Event("failover", c, "nodes", "TypeError")
                  /\ UNCHANGED <<operator, baseURL, mock>>
    /\ UNCHANGED <<clientOptions, login, nodes, started,
                   intervals, inflight, ticks, selections, lastCred>>

\* Lines 218-220: the timer fires and its callback issues GET /auth/profile.
\* The timer fires again whether or not an earlier callback has returned.
Tick(i) ==
    /\ i \in intervals
    /\ ticks < MaxTicks
    /\ started + Pending(MaxHandshakes) < MaxHandshakes
    /\ inflight' = [inflight EXCEPT ![i] = @ + 1]
    /\ ticks' = ticks + 1
    /\ lastEvent' = Event("tick", i, "none", NoError)
    /\ UNCHANGED <<clientOptions, mock, baseURL, login, operator, nodes,
                   initPc, hs, started, intervals, selections,
                   lastCred, errorLog, unhandled>>

\* The callback reacting only to the codes networkResilience recovers from:
\* any other failure of the profile request is ignored.
ProfileResponseOnlyRecoverable(i) ==
    /\ inflight[i] > 0
    /\ inflight' = [inflight EXCEPT ![i] = @ - 1]
    /\ \E res \in {"ok", "HTTP401"} \cup TransportErrors :
         IF res = "ok" \/ ~IsRecoverable(res)
         THEN /\ lastEvent' = Event("profile", i, res, NoError)
              /\ UNCHANGED <<intervals, hs, started, mock>>
         ELSE /\ intervals' = intervals \ {i}
              /\ hs' = [hs EXCEPT ![started + 1] =
                           Requesting(@, "monitor", baseURL)]
              /\ started' = started + 1
              /\ mock' = Served("GET")
              /\ lastEvent' = Event("profile", i, res, NoError)
    /\ UNCHANGED <<clientOptions, baseURL, login, operator, nodes,
                   initPc, ticks, selections, lastCred,
                   errorLog, unhandled>>

\* The callback handing the body of a successful profile request to the
\* session.
ProfileResponseStoringBody(i) ==
    /\ inflight[i] > 0
    /\ inflight' = [inflight EXCEPT ![i] = @ - 1]
    /\ \E res \in {"ok", "HTTP401"} \cup TransportErrors :
         IF res = "ok"
         THEN /\ lastEvent' = Event("profile", i, res, NoError)
              /\ login' = LoginBody(i, "profile")
              /\ UNCHANGED <<intervals, hs, started, mock>>
         ELSE /\ intervals' = intervals \ {i}
              /\ hs' = [hs EXCEPT ![started + 1] =
                           Requesting(@, "monitor", baseURL)]
              /\ started' = started + 1
              /\ mock' = Served("GET")
              /\ lastEvent' = Event("profile", i, res, NoError)
              /\ UNCHANGED login
    /\ UNCHANGED <<clientOptions, baseURL, operator, nodes,
                   initPc, ticks, selections, lastCred,
                   errorLog, unhandled>>

\* Lines 220-225: the profile request of a callback of timer i has settled.
\* Any error clears the timer and calls connectToNode.
ProfileResponse(i) ==
    /\ inflight[i] > 0
    /\ inflight' = [inflight EXCEPT ![i] = @ - 1]
    /\ \E res \in {"ok", "HTTP401"} \cup TransportErrors :
         IF res = "ok"
         THEN /\ lastEvent' = Event("profile", i, res, NoError)
              /\ UNCHANGED <<intervals, hs, started, mock>>
         ELSE /\ intervals' = intervals \ {i}
              /\ hs' = [hs EXCEPT ![started + 1] =
                           Requesting(@, "monitor", baseURL)]
              /\ started' = started + 1
              /\ mock' = Served("GET")
              /\ lastEvent' = Event("profile", i, res, NoError)
    /\ UNCHANGED <<clientOptions, baseURL, login, operator, nodes,
                   initPc, ticks, selections, lastCred,
                   errorLog, unhandled>>

\* A getNodes() call is waiting for the directory's answer.
GetNodesPending == initPc = "selecting" \/ \E c \in Chains : hs[c].pc = "select"

\* The external directory service changes the list getNodes() resolves to.
\* The list is read only when a getNodes() call resolves, so the changes
\* that matter are those made while a call is waiting.
DirectoryChange ==
    /\ GetNodesPending
    /\ \E snapshot \in Snapshots \ {nodes} : nodes' = snapshot
    /\ lastEvent' = Event("directory", 0, "none", NoError)
    /\ UNCHANGED <<clientOptions, mock, baseURL, login, operator, initPc,
                   hs, started, intervals, inflight, ticks, selections,
                   lastCred, errorLog, unhandled>>

Next ==
    \/ OnModuleInit
    \/ OnModuleInitSelected
    \/ \E c \in Chains : ChallengeResponse(c)
    \/ \E c \in Chains : LoginResponse(c)
    \/ \E c \in Chains : Failover(c)
    \/ \E i \in Chains : Tick(i)
    \/ \E i \in Chains : ProfileResponse(i)
    \/ DirectoryChange

Spec == Init /\ [][Next]_vars

\* ------------------------------------------------------ a scripted start
\* Startup against a directory that does not change and nodes that are up or
\* down for good: no baseUrl is configured, the operator key parses, and the
\* nodes count the handshake requests they are sent.
InitScenario ==
    /\ clientOptions = [baseUrl |-> Undefined, keyValid |-> TRUE]
    /\ mock \in {[Unscripted EXCEPT !.scripted = TRUE, !.up = up] :
                     up \in SUBSET {node.url : node \in Operators}}
    /\ nodes \in Snapshots
    /\ Constructed

NextScenario ==
    \/ OnModuleInit
    \/ OnModuleInitSelected
    \/ \E c \in Chains : ChallengeResponse(c)
    \/ \E c \in Chains : LoginResponse(c)
    \/ \E c \in Chains : Failover(c)

SpecScenario == InitScenario /\ [][NextScenario]_vars

\* ---------------------------------------------------------------- claims
\* The operation lastEvent reports was a handshake response of chain c.
Answered(c) == lastEvent.op \in {"challenge", "login"} /\ lastEvent.c = c

\* C1: while a selection waits for a non-empty node list of size N, every
\* entry of the list, the last one (index N-1) included, is a possible
\* outcome of generateBaseUrl.
C1_EveryEntrySelectable ==
    GetNodesPending =>
        \A i \in DOMAIN nodes :
            \E r \in RandomDraws : generateBaseUrl(nodes, r).operator = nodes[i]

\* C2: with a configured baseUrl, every error raised while a handshake waits
\* for its challenge or its login response (a transport error, a malformed
\* challenge, a key that does not parse), in the startup handshake and in a
\* monitor-triggered one alike, ends that handshake as failed with that
\* error, and generateBaseUrl is never invoked: no selection is counted and
\* none is pending in any reachable state.
C2_FixedBaseUrlNeverSelects ==
    Truthy(clientOptions.baseUrl) =>
        /\ selections = 0
        /\ ~GetNodesPending
        /\ \A c \in Chains :
              (Answered(c) /\ lastEvent.err # NoError) =>
                  (hs[c].pc = "failed" /\ hs[c].err = lastEvent.err)

\* C2 witness: with a configured baseUrl, the login POST of a handshake the
\* monitor started failed with a recoverable code and the handshake failed.
C2_Witness ==
    /\ Truthy(clientOptions.baseUrl)
    /\ lastEvent.op = "login"
    /\ lastEvent.err \in RecoverableCodes
    /\ hs[lastEvent.c].origin = "monitor"
    /\ hs[lastEvent.c].pc = "failed"

\* C3: without a configured baseUrl, a recoverable failure of the challenge
\* GET or of the login POST of chain c invokes generateBaseUrl exactly once
\* and leaves the chain waiting for the node list; when the list arrives the
\* chain either sets defaults.baseURL to the URL of the selected entry and
\* starts one new attempt at the challenge request, with no further
\* selection, or (no entry selected) fails; an attempt restarts in no other
\* way.
C3_FailoverStep ==
    [][\A c \in Chains :
        /\ ( /\ ~Truthy(clientOptions.baseUrl)
             /\ hs[c].pc \in {"challenge", "login"}
             /\ Answered(c)'
             /\ lastEvent'.err \in RecoverableCodes )
           => ( /\ hs'[c].pc = "select"
                /\ selections' = selections + 1
                /\ baseURL' = baseURL )
        /\ (hs[c].pc = "select" /\ hs'[c] # hs[c])
           => \/ /\ hs'[c].pc = "challenge"
                 /\ selections' = selections
                 /\ \E i \in DOMAIN nodes : operator' = nodes[i]
                 /\ baseURL' = operator'.url
              \/ /\ hs'[c].pc = "failed"
                 /\ selections' = selections
                 /\ baseURL' = baseURL
        /\ (hs[c].pc # "challenge" /\ hs'[c].pc = "challenge")
           => hs[c].pc \in {"idle", "select"}
        /\ (hs[c].pc # "select" /\ hs'[c].pc = "select")
           => lastEvent'.err \in RecoverableCodes
      ]_vars

\* C3 witness: after the startup selection and two failovers, the chain has
\* just taken the selected entry's URL and waits for the challenge of its
\* new attempt.
C3_Witness ==
    /\ selections = 3
    /\ lastEvent.op = "failover"
    /\ lastEvent.err = NoError
    /\ hs[lastEvent.c].pc = "challenge"
    /\ baseURL = operator.url

\* The three codes the claims name as recoverable.
ClaimedRecoverable == {"ECONNREFUSED", "ECONNABORTED", "ECONNRESET"}

\* C4 (as claimed): without a configured baseUrl, a handshake response is
\* answered with a selection exactly when its error code is one of the three,
\* and every other faulty response (another transport code, a malformed
\* challenge or login response, a key that does not parse) leaves the
\* handshake failed.
C4_Claimed ==
    ~Truthy(clientOptions.baseUrl) =>
        \A c \in Chains :
            Answered(c) =>
                /\ (hs[c].pc = "select") <=>
                       (Code(lastEvent.err) \in ClaimedRecoverable)
                /\ ( /\ (lastEvent.res # "ok" \/ lastEvent.err # NoError)
                     /\ Code(lastEvent.err) \notin ClaimedRecoverable )
                   => hs[c].pc = "failed"

\* C4 (amended): without a configured baseUrl, a handshake response is
\* answered with a selection exactly when the code of the error it raised is
\* one of the three; every other error raised (another transport code, the
\* TypeError of a challenge without signedData, a key that does not parse)
\* fails the handshake at once with that same error, with no selection, and
\* a failed handshake never retries; a malformed login response raises no
\* error and the handshake completes with that body.
C4_OnlyThreeCodesRecover ==
    [][\A c \in Chains :
        /\ ( /\ ~Truthy(clientOptions.baseUrl)
             /\ Answered(c)' )
           => /\ (hs'[c].pc = "select") <=>
                     (Code(lastEvent'.err) \in ClaimedRecoverable)
              /\ ( /\ lastEvent'.err # NoError
                   /\ Code(lastEvent'.err) \notin ClaimedRecoverable )
                 => ( /\ hs'[c].pc = "failed"
                      /\ hs'[c].err = lastEvent'.err
                      /\ selections' = selections )
              /\ (lastEvent'.op = "login" /\ lastEvent'.res = "malformed")
                 => ( /\ lastEvent'.err = NoError
                      /\ hs'[c].pc = "done"
                      /\ hs'[c].cred.shape = "malformed" )
        /\ (hs[c].pc = "failed") => (hs'[c] = hs[c])
      ]_vars

\* C4 witness: without a configured baseUrl, a login POST failed with a
\* transport code outside the three and the handshake failed with it.
C4_Witness ==
    /\ ~Truthy(clientOptions.baseUrl)
    /\ lastEvent.op = "login"
    /\ lastEvent.err = "ETIMEDOUT"
    /\ hs[lastEvent.c].pc = "failed"
    /\ hs[lastEvent.c].err = "ETIMEDOUT"

\* C5: a selection over an empty node list fails with an error and selects
\* nothing (operator and defaults.baseURL keep their values); at startup
\* onModuleInit then ends with no handshake started, and none is ever
\* started afterwards; during failover the handshake ends as failed and
\* makes no further attempt.
C5_EmptyDirectoryFails ==
    [][ /\ (initPc = "selecting" /\ nodes = << >> /\ initPc' # initPc)
           => ( /\ lastEvent'.op = "initSelectFailed"
                /\ lastEvent'.err # NoError
                /\ initPc' = "done"
                /\ started' = 0
                /\ operator' = operator
                /\ baseURL' = baseURL )
        /\ (initPc = "done" /\ started = 0) => (started' = 0 /\ hs' = hs)
        /\ \A c \in Chains :
              /\ (hs[c].pc = "select" /\ nodes = << >> /\ hs'[c] # hs[c])
                 => ( /\ hs'[c].pc = "failed"
                      /\ hs'[c].err # NoError
                      /\ operator' = operator
                      /\ baseURL' = baseURL )
              /\ (hs[c].pc = "failed") => (hs'[c] = hs[c])
      ]_vars

\* C5 witness: the node list was empty when a failover asked for it, and
\* the handshake failed on the selection.
C5_Witness ==
    /\ lastEvent.op = "failover"
    /\ lastEvent.err = "TypeError"
    /\ nodes = << >>
    /\ hs[lastEvent.c].pc = "failed"

\* C6: once a handshake has succeeded, at startup or on the monitor's
\* request, the login getter returns the body of the most recently completed
\* successful handshake.
C6_LoginIsLatestCredential ==
    lastCred # NoLogin => login = lastCred

\* C7: at most one recurring health-check task is armed, and at most one of
\* its callbacks is waiting for its profile response.
C7_SingleMonitor ==
    /\ Cardinality(intervals) <= 1
    /\ Pending(MaxHandshakes) <= 1

\* C8: at most one handshake is in progress (between its first challenge
\* request and its success or failure).
C8_HandshakesSerialized ==
    Cardinality({c \in Chains : Active(c)}) <= 1

\* Startup ended with a failure nothing recovered: the selection failed or
\* the startup handshake failed.
StartupFailed == lastEvent.op = "initSelectFailed" \/ hs[1].pc = "failed"

\* The error startup failed with.
StartupError == IF hs[1].pc = "failed" THEN hs[1].err ELSE lastEvent.err

C10_MonitorFailureIsCaught ==
    \A c \in Chains :
        (hs[c].origin = "monitor" /\ hs[c].pc = "failed") =>
            (c \notin unhandled /\ Len(errorLog) > 0)

\* The scripted start in which node-a refuses every connection and node-b
\* is up, with the directory listing node-a and then node-b.
OnlyNodeBUp ==
    /\ mock.scripted
    /\ nodes = <<NodeA, NodeB>>
    /\ mock.up = {NodeB.url}

\* C11: with the directory [node-a, node-b], node-a refusing the challenge
\* request and node-b up, the selection made after the refusal picks node-b:
\* the node record is node-b's and the new challenge request goes to node-b.
C11_RetrySelectsNodeB ==
    (OnlyNodeBUp /\ lastEvent.op = "failover" /\ selections = 2) =>
        (operator = NodeB /\ hs[1].url = NodeB.url)

\* The scripted start in which the directory lists one node and that node
\* is up.
SingleNodeUp ==
    /\ mock.scripted
    /\ Len(nodes) = 1
    /\ nodes[1].url \in mock.up

\* What C12 says startup has ended with: the login response as the session,
\* the node's record, one selection, one challenge GET and one login POST.
SingleNodeOutcome ==
    /\ login = LoginBody(1, "login")
    /\ operator = nodes[1]
    /\ baseURL = nodes[1].url
    /\ selections = 1
    /\ mock.gets = 1
    /\ mock.posts = 1

\* C12 as claimed: with a directory of exactly one node, whatever its URL,
\* and that node up, startup ends with the session, the node record and
\* exactly one selection, one challenge GET and one login POST.
C12_Claimed == (SingleNodeUp /\ initPc = "done") => SingleNodeOutcome

\* C12: with a directory of exactly one node whose URL starts with "http",
\* and that node up, startup ends with the session equal to the login
\* response, the node record that node's, and exactly one selection, one
\* challenge GET and one login POST made.
C12_SingleNodeStart ==
    (SingleNodeUp /\ StartsWithHttp(nodes[1].url) /\ initPc = "done")
        => SingleNodeOutcome

\* C12 witness: startup against the single node node-a has ended and the
\* session is set.
C12_Witness ==
    /\ SingleNodeUp
    /\ nodes = <<NodeA>>
    /\ initPc = "done"
    /\ login # NoLogin
    /\ hs[1].pc = "done"

\* The operation lastEvent reports was a failed health check: its callback
\* has cleared the timer and called connectToNode for chain `started`.
HealthCheckFailed == lastEvent.op = "profile" /\ lastEvent.res # "ok"

\* C13: under dynamic selection the handshake a failed health check starts
\* queries the directory and selects a node before its challenge request:
\* right after the failure it waits for the directory and has sent nothing.
C13_RehandshakeSelectsFirst ==
    (~BaseUrlIsFixed /\ HealthCheckFailed) =>
        (hs[started].pc = "select" /\ hs[started].url = Undefined)

\* C14: a health check that fails, whatever the error, clears the timer of
\* its callback and starts exactly one handshake, which begins with the
\* challenge request; a timer that is cleared fires no health check again
\* and is never armed again.
C14_FailedCheckRestarts ==
    [][ /\ (lastEvent'.op = "profile" /\ lastEvent'.res # "ok") =>
             /\ lastEvent'.c \notin intervals'
             /\ started' = started + 1
             /\ hs'[started'].pc = "challenge"
             /\ hs'[started'].origin = "monitor"
             /\ \A c \in Chains \ {started'} : hs'[c] = hs[c]
        /\ \A i \in Chains :
             /\ i \notin intervals => inflight'[i] <= inflight[i]
             /\ (i \in intervals' /\ i \notin intervals) =>
                    (hs[i].pc = "login" /\ hs'[i].pc = "done")
      ]_vars

\* C14 witness: a health check was answered with HTTP 401, which is none of
\* the recoverable codes; the timer is cleared and chain 2 waits for its
\* challenge.
C14_Witness ==
    /\ lastEvent = Event("profile", 1, "HTTP401", NoError)
    /\ intervals = {}
    /\ hs[2].pc = "challenge"
    /\ hs[2].origin = "monitor"

\* C15: in every attempt the steps come in the order challenge GET, signing,
\* login POST, monitor scheduling.  An attempt starts with its challenge
\* request and no envelope; the login POST is sent only in the step that
\* receives the challenge of that attempt, and carries the envelope signed
\* over that challenge; the monitor is armed only in the step that receives
\* the answer to that attempt's login POST without error, and a step in
\* which an attempt fails arms nothing.
C15_AttemptOrder ==
    [][ \A c \in Chains :
          /\ (hs'[c].pc = "challenge" /\ hs'[c] # hs[c]) =>
                 /\ hs[c].pc \in {"idle", "select"}
                 /\ hs'[c].envelope = NoEnvelope
          /\ (hs'[c].pc = "login" /\ hs'[c] # hs[c]) =>
                 /\ hs[c].pc = "challenge"
                 /\ lastEvent' = Event("challenge", c, "ok", NoError)
                 /\ hs'[c].envelope.signedPayload = Challenge(c, hs[c].url)
          /\ (c \in intervals' /\ c \notin intervals) =>
                 /\ hs[c].pc = "login"
                 /\ hs[c].envelope.signedPayload.chain = c
                 /\ lastEvent'.op = "login"
                 /\ lastEvent'.c = c
                 /\ lastEvent'.err = NoError
                 /\ hs'[c].pc = "done"
          /\ hs'[c].pc \in {"select", "failed"} =>
                 (c \in intervals' => c \in intervals)
      ]_vars

\* C15 witness: the second attempt of the startup chain has received its
\* challenge from node-b and posted the envelope signed over it.
C15_Witness ==
    /\ hs[1].pc = "login"
    /\ selections = 2
    /\ hs[1].envelope.signedPayload = Challenge(1, NodeB.url)
    /\ lastEvent = Event("challenge", 1, "ok", NoError)

C17_LoopEndsOnlyThreeWays ==
    [][ ~BaseUrlIsFixed =>
          \A c \in Chains :
            /\ (hs'[c].pc = "failed" /\ hs[c].pc # "failed") =>
                   \/ /\ hs[c].pc \in {"challenge", "login"}
                      /\ hs'[c].err # NoError
                      /\ ~IsRecoverable(hs'[c].err)
                   \/ /\ hs[c].pc = "select"
                      /\ nodes = << >>
            /\ (hs'[c].pc = "done" /\ hs[c].pc # "done") =>
                   /\ hs[c].pc = "login"
                   /\ lastEvent'.err = NoError
            /\ (Answered(c)' /\ hs'[c] # hs[c]
                   /\ IsRecoverable(lastEvent'.err)) =>
                   /\ hs'[c].pc = "select"
                   /\ selections' = selections + 1
            /\ (hs[c].pc = "select" /\ hs'[c] # hs[c] /\ nodes # << >>) =>
                   hs'[c].pc = "challenge"
      ]_vars

\* C17 witness: every attempt of the startup handshake so far was refused
\* and the chain is in a new attempt after as many selections as a behaviour
\* may make.
C17_Witness ==
    /\ ~BaseUrlIsFixed
    /\ started = 1
    /\ hs[1].pc = "challenge"
    /\ selections = MaxSelections
    /\ lastEvent = Event("failover", 1, "nodes", NoError)

\* C18: a health check that succeeds changes nothing: the session, the node
\* record, the base URL, the armed timers and every call chain are the same
\* after it as before it, and no handshake is started.
C18_HealthyCheckIsNoOp ==
    [][ (lastEvent'.op = "profile" /\ lastEvent'.res = "ok") =>
            /\ login' = login
            /\ operator' = operator
            /\ baseURL' = baseURL
            /\ intervals' = intervals
            /\ hs' = hs
            /\ started' = started
            /\ selections' = selections
            /\ lastCred' = lastCred
            /\ errorLog' = errorLog
            /\ unhandled' = unhandled
      ]_vars

\* C18 witness: a health check of the timer the startup handshake armed was
\* answered well; the timer is still armed and the session is the startup
\* login.
C18_Witness ==
    /\ lastEvent = Event("profile", 1, "ok", NoError)
    /\ intervals = {1}
    /\ login = LoginBody(1, "login")
    /\ started = 1

\* A getNodes() call of the startup handshake is waiting in a scripted start
\* whose directory lists a node that is up.
SelectingWithNodeUp ==
    /\ mock.scripted
    /\ \E i \in DOMAIN nodes : nodes[i].url \in mock.up
    /\ (initPc = "selecting" \/ hs[1].pc = "select")

\* C19: with a static directory that lists a node that is up, wherever in
\* the list, every selection of the startup handshake can pick a node that
\* is up; otherwise every attempt is refused and no fair sequence of draws
\* ever authenticates.
C19_UpNodeCanBeSelected ==
    SelectingWithNodeUp =>
        \E r \in RandomDraws :
            /\ generateBaseUrl(nodes, r).ok
            /\ generateBaseUrl(nodes, r).operator.url \in mock.up

\* C20: the login POST of an attempt goes to the base URL its challenge was
\* fetched from: the envelope in flight is signed over a challenge of the
\* node the POST was sent to.
C20_PostGoesToChallengeNode ==
    \A c \in Chains :
        hs[c].pc = "login" => hs[c].envelope.signedPayload.node = hs[c].url

\* A handshake the monitor started has ended in failure.
MonitorRehandshakeFailed ==
    \E c \in Chains : hs[c].origin = "monitor" /\ hs[c].pc = "failed"

\* C21: once a handshake the monitor started has failed, no timer is armed
\* and none is armed later, no handshake is started later, and the login
\* getter keeps returning the credential of the session that was lost, the
\* one most recently established.
C21_FailedRehandshakeIsFinal ==
    [][ MonitorRehandshakeFailed =>
            /\ intervals = {}
            /\ intervals' = {}
            /\ started' = started
            /\ login = lastCred
            /\ login' = login
      ]_vars

C23_StartupNeedsHttp ==
    [][ /\ (initPc \in {"start", "selecting"} /\ baseURL' # baseURL) =>
             IF StartsWithHttp(baseURL')
             THEN /\ initPc' = "connecting"
                  /\ started' = 1
                  /\ hs'[1].pc = "challenge"
                  /\ hs'[1].url = baseURL'
             ELSE /\ initPc' = "done"
                  /\ started' = 0
                  /\ hs' = hs
                  /\ mock' = mock
                  /\ errorLog' = errorLog
        /\ (started = 0 /\ started' # 0) => StartsWithHttp(baseURL')
        /\ started' = 0 =>
             /\ login' = NoLogin
             /\ intervals' = {}
             /\ Pending(MaxHandshakes)' = 0
             /\ \A c \in Chains : hs'[c] = IdleChain
             /\ baseURL' # Undefined => errorLog' = << >>
      ]_vars

\* C23 witness: startup selected node-c, whose URL does not start with
\* "http", and has ended without a handshake.
C23_Witness ==
    /\ initPc = "done"
    /\ operator = NodeC
    /\ baseURL = NodeC.url
    /\ started = 0
    /\ login = NoLogin
    /\ errorLog = << >>

====
